---- MODULE Spec2Model ----
(***************************************************************************)
(* Model of the rate-computation ring buffer of go-bitflow-collector       *)
(* (value_ring.go): ValueRing with its writer operations AddToHead,        *)
(* FlushHead, Add, Increment and its reader operations GetHead, GetDiff.   *)
(*                                                                         *)
(* Timestamps are whole seconds of the monotonic clock; the zero Time of   *)
(* a never-written slot is 0 and the clock starts at 1.  A LogbackValue    *)
(* is a record [kind, v]: the nil interface value, a StoredValue holding  *)
(* an integer, a pointer to one, or a value of another type.  A bitflow.Value returned by GetDiff is a rational          *)
(* <<numerator, denominator>> in lowest terms, denominator > 0.            *)
(*                                                                         *)
(* Spec runs AddToHead, FlushHead, GetHead and GetDiff one after the       *)
(* other, each as one step.                                                *)
(* ThreadSpec runs a writer thread and two reader threads; FlushHead,      *)
(* GetDiff and GetHead take ValueRing.lock, and FlushHead is split into    *)
(* the statements of its body.                                             *)
(* WritersSpec runs two threads calling AddToHead, FlushHead, Add and      *)
(* Increment statement by statement, and a reader; AddSpec runs one        *)
(* goroutine calling Add.                                                  *)
(* ApiSpec runs the handlers of the REST file-output switch                *)
(* (cmd_helper/cmd.go) as concurrent goroutines.                           *)
(***************************************************************************)
EXTENDS Integers, Sequences, FiniteSets, TLC

\* ---------------------------------------------------------------- bounds
MaxLength == 3      \* largest ValueRingFactory.Length explored
MaxInterval == 2    \* largest ValueRingFactory.Interval (seconds) explored
MaxTime == 3        \* latest clock reading explored
MaxScalar == 1      \* largest scalar stored in the ring
MaxFlushes == 4     \* number of FlushHead calls explored
MaxThreadFlushes == 2  \* number of FlushHead calls explored with threads
MaxWritersLength == 2  \* length of the ring written by several threads
MaxWritersTime == 2    \* latest clock reading explored with several writers
MaxFnLength == 2    \* length of the ring given values of mixed types
MaxFnFlushes == 2   \* number of FlushHead calls on such a ring
MaxFnTime == 2      \* latest clock reading of a FlushHead on such a ring
MaxAddLength == 2   \* length of the ring one goroutine calls Add on
MaxAddFlushes == 4  \* number of Add calls by that goroutine
MaxAddTime == 2     \* latest clock reading of those calls
MaxMockLength == 1  \* largest ring of a MockCollector
MaxInits == 3       \* number of MockCollector.Init calls explored
MaxUpdates == 2     \* number of MockCollector.Update calls explored

\* _max_mock_val, collector_mock.go:10
MaxMockVal == 15
InitCallers == {"init1", "init2"}

MaxCollectInterval == 12  \* largest -ci explored, in steps of 100ms
MaxIncrements == 3  \* number of Increment calls explored with threads
MaxDelta == 2       \* largest argument and largest running total of Increment
MaxCollectors == 3  \* number of registered collectors
MaxCycles == 2      \* number of sampling cycles explored
MaxRequests == 3    \* number of requests to the REST API explored

\* time.Duration, counted in milliseconds
Millisecond == 1
Second == 1000 * Millisecond

\* valueFactory.Interval, main.go:37, in seconds
FactoryInterval == Second \div Second

Free == "free"
Writer == "writer"
Readers == {"reader1", "reader2"}
Writers == {Writer, "writer2"}
Threads == Writers \cup Readers

Nil == [kind |-> "nil", v |-> 0]
StoredValue(n) == [kind |-> "StoredValue", v |-> n]
Scalars == 0..MaxScalar
StoredValues == {StoredValue(n) : n \in Scalars}

\* a LogbackValue of a type other than StoredValue
Other == [kind |-> "other", v |-> 0]

\* a LogbackValue of type *StoredValue: a pointer, not nil, to the scalar n
Pointer(n) == [kind |-> "*StoredValue", v |-> n]
Pointers == {Pointer(n) : n \in Scalars}

\* the types the type switches of StoredValue know, value_ring.go:196-200
IsScalar(v) == v.kind \in {"StoredValue", "*StoredValue"}

VARIABLES
    interval,      \* ValueRing.interval (the window), seconds
    values,        \* ValueRing.values: [0..len-1 -> TimedValue]
    head,          \* ValueRing.head (index of the next slot to write)
    aggregator,    \* ValueRing.aggregator (Nil or a scalar)
    previousDiff,  \* ValueRing.previousDiff
    now,           \* the latest reading of the monotonic clock (time.Now())
    op,            \* history: name of the last completed operation
    arg,           \* history: argument of that operation, if Add or Increment
    aggBefore,     \* history: aggregator before that operation, if Add or Increment
    resHead,       \* history: result of that operation, if GetHead
    resDiff,       \* history: result of that operation, if GetDiff
    diffRaw,       \* history: val computed by getDiffInterval in that GetDiff
    lastGood,      \* history: result of the last GetDiff that computed a diff >= 0
    retained,      \* history: the newest committed values, oldest first, at most len
    recovered,     \* history: some GetDiff has taken the overflow branch
    nflush,        \* history: number of completed FlushHead calls
    lock,          \* ValueRing.lock: the thread holding it, or Free
    pc             \* the position of each thread in the method it is calling

ring == <<interval, values, head, aggregator, previousDiff>>
last == <<op, arg, aggBefore, resHead, resDiff, diffRaw>>
threads == <<lock, pc>>

VARIABLES
    fnName,        \* the StoredValue method applied last: none, DiffValue, AddValue
    fnSelf,        \* its receiver
    fnOther,       \* its LogbackValue argument
    fnSecs,        \* its interval argument, seconds, when it is DiffValue
    fnDiff,        \* the bitflow.Value it returned, when it is DiffValue
    fnSum,         \* the LogbackValue it returned, when it is AddValue
    mismatched     \* history: AddToHead was given a value that is no StoredValue

fnVars == <<fnName, fnSelf, fnOther, fnSecs, fnDiff, fnSum, mismatched>>

VARIABLES
    mockVal,       \* MockCollector.val
    onceDone,      \* MockCollector.startOnce has run its function
    generators,    \* number of generator goroutines started
    genPc,         \* the generator's position in its loop: sleep, test
    readers,       \* MockCollector.readers: the metric names registered
    initPc,        \* the position of each thread calling Init
    initsCalled,   \* history: number of Init calls started
    initsReturned, \* history: number of Init calls that returned nil
    registrations  \* history: number of times readers was assigned

mockVars == <<mockVal, onceDone, generators, genPc, readers, initPc,
              initsCalled, initsReturned, registrations>>

VARIABLES
    collectInterval,  \* collect_local_interval, main.go:18, set by -ci
    factoryLength,    \* valueFactory.Length
    mainPc,           \* the position of do_main: off, parsed, configured, running
    panicked          \* an index was out of range

mainVars == <<collectInterval, factoryLength, mainPc, panicked>>

VARIABLES
    initNext,      \* the scheduler's position in the registry during startup
    active,        \* the collectors the scheduler updates
    pending,       \* the active collectors not yet updated in this cycle
    cycle,         \* number of sampling cycles started
    initFailed,    \* history: the collectors whose Init returned an error
    initOk,        \* history: the collectors whose Init returned nil
    updates,       \* history: number of Update calls on each collector
    updateFailed   \* history: the collectors some Update of which returned an error

schedVars == <<initNext, active, pending, cycle, initFailed, initOk, updates,
               updateFailed>>

VARIABLES
    pendingAdd,    \* each thread inside AddToHead: its argument, then the sum to store
    total,         \* history: sum of the arguments of the Increment calls
    issued,        \* history: number of Increment calls
    headIndexOf    \* each thread inside getHead: its local headIndexOf

writerVars == <<pendingAdd, total, issued, headIndexOf>>

VARIABLES
    sinceReset     \* history: number of commits since the latest overflow
                   \* recovery, each a scalar not below the one before it;
                   \* -1 without a recovery or once a commit was lower or empty

VARIABLES
    FileOutputEnabled,  \* FileOutputFilterApi.FileOutputEnabled
    apiLock,       \* FileOutputFilterApi.lock: the request holding it, or Free
    request,       \* each handler goroutine: its position, r.Method and its
                   \* locals oldStatus, newStatus and status
    served,        \* history: number of requests received
    included       \* history: what the IncludeFilter of set_sink returned last

apiVars == <<FileOutputEnabled, apiLock, request, served, included>>

\* the state outside the ring, and outside the ring and one subsystem
outside == <<writerVars, fnVars, mockVars, mainVars, schedVars, sinceReset,
             apiVars>>
notFn == <<writerVars, mockVars, mainVars, schedVars, sinceReset, apiVars>>
notMock == <<writerVars, fnVars, mainVars, schedVars, sinceReset, apiVars>>
notMain == <<writerVars, fnVars, mockVars, schedVars, sinceReset, apiVars>>
notSched == <<writerVars, fnVars, mockVars, mainVars, sinceReset, apiVars>>
notWriters == <<fnVars, mockVars, mainVars, schedVars, sinceReset, apiVars>>
notReset == <<writerVars, fnVars, mockVars, mainVars, schedVars, apiVars>>
notApi == <<writerVars, fnVars, mockVars, mainVars, schedVars, sinceReset>>

\* the ring and everything else that is not the file-output switch
beside == <<ring, now, last, lastGood, retained, recovered, nflush, threads,
            notApi>>

vars == <<ring, now, last, lastGood, retained, recovered, nflush, threads,
          outside>>

\* ------------------------------------------------------------- rationals
Abs(x) == IF x < 0 THEN -x ELSE x

RECURSIVE GCD(_, _)
GCD(a, b) == IF b = 0 THEN a ELSE GCD(b, a % b)

\* n/d in lowest terms, d > 0
Rat(n, d) == LET g == GCD(Abs(n), d) IN <<n \div g, d \div g>>

Zero == <<0, 1>>
IsNegative(q) == q[1] < 0

\* the float64 values a division by 0 gives; written n/0 with n the sign
PosInf == <<1, 0>>
NegInf == <<-1, 0>>
NaN == <<0, 0>>

\* float64 division n/d
Quotient(n, d) ==
    IF d # 0 THEN Rat(n, d)
    ELSE IF n > 0 THEN PosInf
    ELSE IF n < 0 THEN NegInf
    ELSE NaN

\* ------------------------------------------------------------ TimedValue
TimedValue(t, v) == [time |-> t, val |-> v]
ZeroTimedValue == TimedValue(0, Nil)

len(vals) == Cardinality(DOMAIN vals)

\* ------------------------------------------------------------ StoredValue
\* StoredValue.DiffValue, value_ring.go:195-205: the type switch takes a
\* StoredValue and a *StoredValue and gives 0 for every other type and nil
DiffValue(val, previous, secs) ==
    CASE previous.kind = "StoredValue" -> Quotient(val.v - previous.v, secs)
      [] previous.kind = "*StoredValue" -> Quotient(val.v - previous.v, secs)
      [] OTHER -> Zero

\* AddValue keeping the receiver when the argument is no StoredValue
AddValueKeep(val, incoming) ==
    CASE incoming.kind = "StoredValue" -> StoredValue(val.v + incoming.v)
      [] incoming.kind = "*StoredValue" -> StoredValue(val.v + incoming.v)
      [] OTHER -> val

\* StoredValue.AddValue, value_ring.go:207-217
AddValue(val, incoming) ==
    CASE incoming.kind = "StoredValue" -> StoredValue(val.v + incoming.v)
      [] incoming.kind = "*StoredValue" -> StoredValue(val.v + incoming.v)
      [] OTHER -> StoredValue(0)

\* ------------------------------------------------------ internal functions
\* getHead without the step back from the next-write index
getHeadAtNextWrite(vals, h) ==
    LET headIndex == IF h <= 0 THEN len(vals) - 1 ELSE h
    IN vals[headIndex]

getHead(vals, h) ==
    LET headIndex == IF h <= 0 THEN len(vals) - 1 ELSE h - 1
    IN vals[headIndex]

\* walkRing accepting a sample that lies exactly on the boundary
RECURSIVE walkInclusive(_, _, _, _, _)
walkInclusive(vals, i, lo, result, before) ==
    IF i < lo THEN [result |-> result, done |-> FALSE]
    ELSE IF vals[i].val = Nil THEN [result |-> result, done |-> TRUE]
    ELSE IF vals[i].time <= before THEN [result |-> vals[i], done |-> TRUE]
    ELSE walkInclusive(vals, i - 1, lo, vals[i], before)

\* walkRing stepping over an empty slot instead of stopping there
RECURSIVE walkPastEmpty(_, _, _, _, _)
walkPastEmpty(vals, i, lo, result, before) ==
    IF i < lo THEN [result |-> result, done |-> FALSE]
    ELSE IF vals[i].val = Nil THEN walkPastEmpty(vals, i - 1, lo, result, before)
    ELSE IF vals[i].time < before THEN [result |-> vals[i], done |-> TRUE]
    ELSE walkPastEmpty(vals, i - 1, lo, vals[i], before)

\* one loop of get(): walkRing over i, i-1, ..., lo
RECURSIVE walk(_, _, _, _, _)
walk(vals, i, lo, result, before) ==
    IF i < lo THEN [result |-> result, done |-> FALSE]
    ELSE IF vals[i].val = Nil THEN [result |-> result, done |-> TRUE]
    ELSE IF vals[i].time < before THEN [result |-> vals[i], done |-> TRUE]
    ELSE walk(vals, i - 1, lo, vals[i], before)

\* get giving the empty TimedValue when no sample is old enough
getOrEmpty(vals, h, before) ==
    LET first == walk(vals, h - 1, 0, ZeroTimedValue, before)
        found == IF first.done THEN first.result
                 ELSE walk(vals, len(vals) - 1, h, first.result, before).result
    IN IF found.time < before THEN found ELSE ZeroTimedValue

get(vals, h, before) ==
    LET first == walk(vals, h - 1, 0, ZeroTimedValue, before)
    IN IF first.done THEN first.result
       ELSE walk(vals, len(vals) - 1, h, first.result, before).result

\* getDiffInterval without the test for an interval of 0
getDiffIntervalUnguarded(vals, h, before) ==
    LET hd == getHead(vals, h)
    IN IF hd.val = Nil THEN Zero
       ELSE LET previous == get(vals, h, hd.time - before)
            IN IF previous.val = Nil THEN Zero
               ELSE DiffValue(hd.val, previous.val, hd.time - previous.time)

getDiffInterval(vals, h, before) ==
    LET hd == getHead(vals, h)
    IN IF hd.val = Nil THEN Zero
       ELSE LET previous == get(vals, h, hd.time - before)
            IN IF previous.val = Nil THEN Zero
               ELSE IF hd.time - previous.time = 0 THEN Zero
               ELSE DiffValue(hd.val, previous.val, hd.time - previous.time)

\* one loop of flush(): clear i, i-1, ..., lo until an empty slot
RECURSIVE flushLoop(_, _, _)
flushLoop(vals, i, lo) ==
    IF i < lo THEN [vals |-> vals, done |-> FALSE]
    ELSE IF vals[i].val = Nil THEN [vals |-> vals, done |-> TRUE]
    ELSE flushLoop([vals EXCEPT ![i].val = Nil], i - 1, lo)

\* flush clearing nothing
flushNothing(vals, h, start) == vals

flush(vals, h, start) ==
    LET s == IF start < 0 THEN start + len(vals) ELSE start
        first == flushLoop(vals, s, 0)
    IN IF first.done THEN first.vals
       ELSE flushLoop(first.vals, len(vals) - 1, h).vals

\* GetDiff without the fallback to previousDiff
getDiffValueRaw(val, previous) == val

\* GetDiff falling back to 0 instead of previousDiff
getDiffValueZero(val, previous) == IF IsNegative(val) THEN Zero ELSE val

\* GetDiff: the value returned, value_ring.go:101-109
getDiffValue(val, previous) == IF IsNegative(val) THEN previous ELSE val

\* GetDiff: the ring's slots afterwards, value_ring.go:102-105
getDiffValues(val, vals, h) ==
    IF IsNegative(val) THEN flush(vals, h, h - 2) ELSE vals

\* GetDiff: previousDiff afterwards, value_ring.go:102-108
getDiffPrevious(val, previous) == IF IsNegative(val) THEN previous ELSE val

\* ------------------------------------------------------------------ Init
NewValueRing(length, window) ==
    /\ values = [i \in 0..(length - 1) |-> ZeroTimedValue]
    /\ interval = window
    /\ head = 0
    /\ aggregator = Nil
    /\ previousDiff = Zero

\* the record of the last completed operation
did(name, a, agg, h, d, raw) ==
    /\ op' = name
    /\ arg' = a
    /\ aggBefore' = agg
    /\ resHead' = h
    /\ resDiff' = d
    /\ diffRaw' = raw

\* the histories and threads of a ring that was just made
Fresh ==
    /\ now = 1
    /\ op = "new"
    /\ arg = Nil
    /\ aggBefore = Nil
    /\ resHead = Nil
    /\ resDiff = Zero
    /\ diffRaw = Zero
    /\ lastGood = Zero
    /\ retained = <<>>
    /\ recovered = FALSE
    /\ nflush = 0
    /\ lock = Free
    /\ pc = [t \in Threads |-> "idle"]

\* no StoredValue method has been applied on its own
FnIdle ==
    /\ fnName = "none"
    /\ fnSelf = Nil
    /\ fnOther = Nil
    /\ fnSecs = 0
    /\ fnDiff = Zero
    /\ fnSum = Nil
    /\ mismatched = FALSE

\* a MockCollector as RegisterMockCollector makes it
MockIdle ==
    /\ mockVal = 0
    /\ onceDone = FALSE
    /\ generators = 0
    /\ genPc = "sleep"
    /\ readers = {}
    /\ initPc = [c \in InitCallers |-> "idle"]
    /\ initsCalled = 0
    /\ initsReturned = 0
    /\ registrations = 0

\* do_main is not followed
MainIdle ==
    /\ collectInterval = 500 * Millisecond
    /\ factoryLength = 0
    /\ mainPc = "off"
    /\ panicked = FALSE

\* the registry as allCollectors() returns it, in registration order
Collectors == 1..MaxCollectors

\* the scheduler before startup
SchedIdle ==
    /\ initNext = 1
    /\ active = {}
    /\ pending = {}
    /\ cycle = 0
    /\ initFailed = {}
    /\ initOk = {}
    /\ updates = [c \in Collectors |-> 0]
    /\ updateFailed = {}

\* no thread is inside AddToHead and no Increment was called
WritersIdle ==
    /\ pendingAdd = [w \in Writers |-> Nil]
    /\ total = 0
    /\ issued = 0
    /\ headIndexOf = [w \in Writers |-> 0]

\* the handler goroutines of the REST API
Requests == {"req1", "req2"}

\* the methods Register routes to handleRequest, cmd.go:135
Methods == {"GET", "POST", "PUT", "DELETE"}

\* a handler goroutine that has not received a request
NoRequest ==
    [pc |-> "idle", method |-> "GET", oldStatus |-> FALSE,
     newStatus |-> FALSE, status |-> ""]

\* the zero FileOutputFilterApi of a CmdDataCollector
ApiIdle ==
    /\ FileOutputEnabled = FALSE
    /\ apiLock = Free
    /\ request = [r \in Requests |-> NoRequest]
    /\ served = 0
    /\ included = FALSE

Idle ==
    /\ ApiIdle
    /\ FnIdle
    /\ MockIdle
    /\ MainIdle
    /\ SchedIdle
    /\ WritersIdle
    /\ sinceReset = -1

Init ==
    /\ \E length \in 1..MaxLength, window \in 1..MaxInterval :
          NewValueRing(length, window)
    /\ Fresh
    /\ Idle

\* --------------------------------------------------------- writer steps
\* AddToHead, value_ring.go:55
addToHead(agg, val) == IF agg = Nil THEN val ELSE AddValue(agg, val)

\* FlushHead: the slot written at value_ring.go:67
writeHead(vals, h, t, agg) == [vals EXCEPT ![h] = TimedValue(t, agg)]

\* FlushHead wrapping one slot early
advanceHeadEarly(vals, h) == IF h >= len(vals) - 2 THEN 0 ELSE h + 1

\* FlushHead: the index update at value_ring.go:68-72
advanceHead(vals, h) == IF h >= len(vals) - 1 THEN 0 ELSE h + 1

\* history kept beside the ring: the newest n committed values
remember(hist, v, n) ==
    LET all == Append(hist, v)
    IN IF Len(all) > n THEN SubSeq(all, 2, Len(all)) ELSE all

\* the state change of FlushHead when the aggregator holds agg and
\* time.Now() reads t
commit(agg, t) ==
    /\ nflush < MaxFlushes
    /\ now' = t
    /\ values' = writeHead(values, head, t, agg)
    /\ head' = advanceHead(values, head)
    /\ aggregator' = Nil
    /\ retained' = remember(retained, agg, len(values))
    /\ nflush' = nflush + 1

\* the readings time.Now() can give after the reading now
Clock == now..MaxTime

\* ---------------------------------------------------------------- actions
\* The calls that make up every use of the ring, one step each. FlushHead,
\* GetHead and GetDiff hold ring.lock from their first statement to their
\* return. Add is AddToHead followed by FlushHead, value_ring.go:77-78, with
\* whatever other callers do in between; Add, Increment and the unlocked
\* statements of AddToHead run statement by statement in AddSpec,
\* IncrementSpec and WritersSpec.
AddToHead(val) ==
    /\ addToHead(aggregator, val) \in StoredValues
    /\ aggregator' = addToHead(aggregator, val)
    /\ did("AddToHead", Nil, Nil, Nil, Zero, Zero)
    /\ UNCHANGED <<outside, interval, values, head, previousDiff, now, lastGood,
                   retained, recovered, nflush, threads>>

FlushHead(t) ==
    /\ commit(aggregator, t)
    /\ did("FlushHead", Nil, Nil, Nil, Zero, Zero)
    /\ UNCHANGED <<outside, interval, previousDiff, lastGood, recovered, threads>>

GetHead ==
    /\ did("GetHead", Nil, Nil, getHead(values, head).val, Zero, Zero)
    /\ UNCHANGED <<outside, ring, now, lastGood, retained, recovered, nflush, threads>>

\* the state change of GetDiff
getDiff ==
    LET val == getDiffInterval(values, head, interval)
    IN /\ did("GetDiff", Nil, Nil, Nil, getDiffValue(val, previousDiff), val)
       /\ values' = getDiffValues(val, values, head)
       /\ previousDiff' = getDiffPrevious(val, previousDiff)
       /\ lastGood' = IF IsNegative(val) THEN lastGood
                      ELSE getDiffValue(val, previousDiff)
       /\ recovered' = (recovered \/ IsNegative(val))
       /\ UNCHANGED <<interval, head, aggregator, now, retained, nflush,
                      threads>>

GetDiff ==
    /\ getDiff
    /\ UNCHANGED outside

Next ==
    \/ \E val \in StoredValues : AddToHead(val)
    \/ \E t \in Clock : FlushHead(t)
    \/ GetHead
    \/ GetDiff

Spec == Init /\ [][Next]_vars

\* ---------------------------------------------------------------- threads
\* sync.Mutex.Lock taking the mutex without waiting for it
LockNoWait(t) == lock' = t

\* ring.lock.Lock(), value_ring.go:64, 98, 114: blocks until the mutex is free
Lock(t) ==
    /\ lock = Free
    /\ lock' = t

\* ring.lock.Unlock(), deferred to the return of the method
Unlock(t) == lock' = Free

goto(t, label) == pc' = [pc EXCEPT ![t] = label]

\* the thread calls a method that starts by taking the lock
Call(t, method) ==
    /\ pc[t] = "idle"
    /\ goto(t, method)
    /\ UNCHANGED <<outside, ring, now, last, lastGood, retained, recovered, nflush, lock>>

CallFlushHead ==
    /\ nflush < MaxThreadFlushes
    /\ Call(Writer, "FlushHead:lock")

CallGetDiff(t) == Call(t, "GetDiff:lock")

CallGetHead(t) == Call(t, "GetHead:lock")

\* FlushHead, value_ring.go:64
FlushHeadLock ==
    /\ pc[Writer] = "FlushHead:lock"
    /\ Lock(Writer)
    /\ goto(Writer, "FlushHead:write")
    /\ UNCHANGED <<outside, ring, now, last, lastGood, retained, recovered, nflush>>

\* FlushHead, value_ring.go:67
FlushHeadWrite(t) ==
    /\ pc[Writer] = "FlushHead:write"
    /\ now' = t
    /\ values' = writeHead(values, head, t, aggregator)
    /\ retained' = remember(retained, aggregator, len(values))
    /\ goto(Writer, "FlushHead:advance")
    /\ UNCHANGED <<outside, interval, head, aggregator, previousDiff, last, lastGood,
                   recovered, nflush, lock>>

\* FlushHead, value_ring.go:68-72
FlushHeadAdvance ==
    /\ pc[Writer] = "FlushHead:advance"
    /\ head' = advanceHead(values, head)
    /\ goto(Writer, "FlushHead:clear")
    /\ UNCHANGED <<outside, interval, values, aggregator, previousDiff, now, last,
                   lastGood, retained, recovered, nflush, lock>>

\* FlushHead, value_ring.go:73 and the deferred Unlock
FlushHeadClear ==
    /\ pc[Writer] = "FlushHead:clear"
    /\ aggregator' = Nil
    /\ nflush' = nflush + 1
    /\ Unlock(Writer)
    /\ goto(Writer, "idle")
    /\ UNCHANGED <<outside, interval, values, head, previousDiff, now, last, lastGood,
                   retained, recovered>>

\* GetDiff, value_ring.go:98
GetDiffLock(t) ==
    /\ pc[t] = "GetDiff:lock"
    /\ Lock(t)
    /\ goto(t, "GetDiff:body")
    /\ UNCHANGED <<outside, ring, now, last, lastGood, retained, recovered, nflush>>

\* GetDiff, value_ring.go:101-109 and the deferred Unlock
GetDiffBody(t) ==
    LET val == getDiffInterval(values, head, interval)
    IN /\ pc[t] = "GetDiff:body"
       /\ values' = getDiffValues(val, values, head)
       /\ previousDiff' = getDiffPrevious(val, previousDiff)
       /\ lastGood' = IF IsNegative(val) THEN lastGood
                      ELSE getDiffValue(val, previousDiff)
       /\ recovered' = (recovered \/ IsNegative(val))
       /\ Unlock(t)
       /\ goto(t, "idle")
       /\ UNCHANGED <<outside, interval, head, aggregator, now, last, retained, nflush>>

\* GetHead, value_ring.go:114
GetHeadLock(t) ==
    /\ pc[t] = "GetHead:lock"
    /\ Lock(t)
    /\ goto(t, "GetHead:body")
    /\ UNCHANGED <<outside, ring, now, last, lastGood, retained, recovered, nflush>>

\* GetHead, value_ring.go:116 and the deferred Unlock
GetHeadBody(t) ==
    /\ pc[t] = "GetHead:body"
    /\ Unlock(t)
    /\ goto(t, "idle")
    /\ UNCHANGED <<outside, ring, now, last, lastGood, retained, recovered, nflush>>


\* --------------------------------------------------------- several writers
\* two threads calling AddToHead, FlushHead, Add and Increment, and a reader.
\* AddToHead holds no lock: it tests the aggregator, reads it again as the
\* receiver of AddValue and assigns it, in three steps.  Add and Increment
\* run AddToHead and then FlushHead; Increment first reads the head sample
\* with no lock held.

\* a method call on the nil interface has panicked and the process is gone
Running == \A t \in Threads : pc[t] # "panic"

AddLabels == {"Increment:slot", "Add:test", "Add:read", "Add:store"}

\* FlushHead calls begun, or still to come in an Add, and not returned
InFlushHead == {w \in Writers : pc[w] \in AddLabels \cup
                   {"FlushHead:lock", "FlushHead:write", "FlushHead:advance",
                    "FlushHead:clear"}}

CallFlushHeadBy(w) ==
    /\ nflush + Cardinality(InFlushHead) < MaxThreadFlushes
    /\ Call(w, "FlushHead:lock")

\* AddToHead is called and tests the aggregator, value_ring.go:56
CallAddToHeadBy(w, val) ==
    /\ pc[w] = "idle"
    /\ pendingAdd' = [pendingAdd EXCEPT ![w] = val]
    /\ goto(w, IF aggregator = Nil THEN "AddToHead:store"
               ELSE "AddToHead:read")
    /\ UNCHANGED <<ring, now, last, lastGood, retained, recovered, nflush,
                   lock, notWriters, total, issued,
                   headIndexOf>>

\* Add, value_ring.go:76-77: AddToHead is called and tests the aggregator
CallAddBy(w, val) ==
    /\ pc[w] = "idle"
    /\ nflush + Cardinality(InFlushHead) < MaxThreadFlushes
    /\ pendingAdd' = [pendingAdd EXCEPT ![w] = val]
    /\ goto(w, IF aggregator = Nil THEN "Add:store" ELSE "Add:read")
    /\ UNCHANGED <<ring, now, last, lastGood, retained, recovered, nflush,
                   lock, notWriters, total, issued,
                   headIndexOf>>

\* getHead, value_ring.go:140-145: the index of the slot before ring.head
headBefore(vals, h) == IF h <= 0 THEN len(vals) - 1 ELSE h - 1

\* Increment, value_ring.go:86, calls getHead, which reads ring.head with no
\* lock held, value_ring.go:140-145
CallIncrementBy(w, val) ==
    /\ pc[w] = "idle"
    /\ nflush + Cardinality(InFlushHead) < MaxThreadFlushes
    /\ pendingAdd' = [pendingAdd EXCEPT ![w] = val]
    /\ headIndexOf' = [headIndexOf EXCEPT ![w] = headBefore(values, head)]
    /\ goto(w, "Increment:slot")
    /\ UNCHANGED <<ring, now, last, lastGood, retained, recovered, nflush,
                   lock, notWriters, total, issued>>

\* what Increment hands to Add after reading the slot, value_ring.go:87-89
incremented(cur, val) == IF cur # Nil THEN AddValue(cur, val) ELSE val

\* getHead reads ring.values[headIndex], value_ring.go:146, still with no
\* lock held; Increment adds the sample to its argument and calls Add,
\* value_ring.go:87-90
IncrementReadSlot(w) ==
    /\ pc[w] = "Increment:slot"
    /\ pendingAdd' = [pendingAdd EXCEPT
                         ![w] = incremented(values[headIndexOf[w]].val, @)]
    /\ headIndexOf' = [headIndexOf EXCEPT ![w] = 0]
    /\ goto(w, "Add:test")
    /\ UNCHANGED <<ring, now, last, lastGood, retained, recovered, nflush,
                   lock, notWriters, total, issued>>

\* the sum Increment is about to compute is one of the scalars explored
IncrementInRange(w) ==
    incremented(values[headIndexOf[w]].val, pendingAdd[w]) \in StoredValues

\* AddToHead inside the Add of Increment, value_ring.go:56
AddToHeadTest(w) ==
    /\ pc[w] = "Add:test"
    /\ goto(w, IF aggregator = Nil THEN "Add:store" ELSE "Add:read")
    /\ UNCHANGED <<ring, now, last, lastGood, retained, recovered, nflush,
                   lock, outside>>

\* AddToHead, value_ring.go:59: the aggregator is read again, as the
\* receiver of AddValue; the call panics when it has become nil
AddToHeadRead(w) ==
    /\ pc[w] \in {"AddToHead:read", "Add:read"}
    /\ IF aggregator = Nil
       THEN /\ goto(w, "panic")
            /\ UNCHANGED pendingAdd
       ELSE /\ pendingAdd' = [pendingAdd EXCEPT
                                 ![w] = AddValue(aggregator, pendingAdd[w])]
            /\ goto(w, IF pc[w] = "Add:read" THEN "Add:store"
                       ELSE "AddToHead:store")
    /\ UNCHANGED <<ring, now, last, lastGood, retained, recovered, nflush,
                   lock, notWriters, total, issued,
                   headIndexOf>>

\* AddToHead, value_ring.go:57, 59: the aggregator is assigned; inside Add
\* FlushHead is called next, value_ring.go:78
AddToHeadStore(w) ==
    /\ pc[w] \in {"AddToHead:store", "Add:store"}
    /\ aggregator' = pendingAdd[w]
    /\ pendingAdd' = [pendingAdd EXCEPT ![w] = Nil]
    /\ goto(w, IF pc[w] = "Add:store" THEN "FlushHead:lock" ELSE "idle")
    /\ UNCHANGED <<interval, values, head, previousDiff, now, last, lastGood,
                   retained, recovered, nflush, lock, notWriters, total, issued,
                   headIndexOf>>

\* FlushHead, value_ring.go:64
FlushHeadLockBy(w) ==
    /\ pc[w] = "FlushHead:lock"
    /\ Lock(w)
    /\ goto(w, "FlushHead:write")
    /\ UNCHANGED <<outside, ring, now, last, lastGood, retained, recovered,
                   nflush>>

\* FlushHead, value_ring.go:67
FlushHeadWriteBy(w, t) ==
    /\ pc[w] = "FlushHead:write"
    /\ now' = t
    /\ values' = writeHead(values, head, t, aggregator)
    /\ retained' = remember(retained, aggregator, len(values))
    /\ goto(w, "FlushHead:advance")
    /\ UNCHANGED <<outside, interval, head, aggregator, previousDiff, last,
                   lastGood, recovered, nflush, lock>>

\* FlushHead, value_ring.go:68-72
FlushHeadAdvanceBy(w) ==
    /\ pc[w] = "FlushHead:advance"
    /\ head' = advanceHead(values, head)
    /\ goto(w, "FlushHead:clear")
    /\ UNCHANGED <<outside, interval, values, aggregator, previousDiff, now,
                   last, lastGood, retained, recovered, nflush, lock>>

\* FlushHead, value_ring.go:73 and the deferred Unlock, returning to the
\* caller's position after
FlushHeadReturnTo(w, after) ==
    /\ pc[w] = "FlushHead:clear"
    /\ aggregator' = Nil
    /\ nflush' = nflush + 1
    /\ Unlock(w)
    /\ goto(w, after)
    /\ UNCHANGED <<outside, interval, values, head, previousDiff, now, last,
                   lastGood, retained, recovered>>

FlushHeadClearBy(w) == FlushHeadReturnTo(w, "idle")

\* the sum AddToHead is about to compute is one of the scalars explored
SumInRange(w) ==
    aggregator # Nil => AddValue(aggregator, pendingAdd[w]) \in StoredValues

\* one writer calling AddToHead and FlushHead, two readers
ThreadNext ==
    \/ CallFlushHead
    \/ \E val \in StoredValues : CallAddToHeadBy(Writer, val)
    \/ SumInRange(Writer) /\ AddToHeadRead(Writer)
    \/ AddToHeadStore(Writer)
    \/ FlushHeadLock
    \/ \E t \in Clock : FlushHeadWrite(t)
    \/ FlushHeadAdvance
    \/ FlushHeadClear
    \/ \E t \in Readers : CallGetDiff(t)
    \/ \E t \in Readers : GetDiffLock(t)
    \/ \E t \in Readers : GetDiffBody(t)
    \/ \E t \in Readers : CallGetHead(t)
    \/ \E t \in Readers : GetHeadLock(t)
    \/ \E t \in Readers : GetHeadBody(t)

\* a ring of the factory of main.go:36, its window one second
ThreadInit ==
    /\ \E length \in 1..MaxLength : NewValueRing(length, FactoryInterval)
    /\ Fresh
    /\ Idle

ThreadSpec == ThreadInit /\ [][ThreadNext]_vars

WritersNext ==
    \/ \E w \in Writers : Running /\ CallFlushHeadBy(w)
    \/ \E w \in Writers, val \in StoredValues :
          Running /\ CallAddToHeadBy(w, val)
    \/ \E w \in Writers, val \in StoredValues : Running /\ CallAddBy(w, val)
    \/ \E w \in Writers, val \in StoredValues :
          Running /\ CallIncrementBy(w, val)
    \/ \E w \in Writers : Running /\ IncrementInRange(w) /\ IncrementReadSlot(w)
    \/ \E w \in Writers : Running /\ AddToHeadTest(w)
    \/ \E w \in Writers : Running /\ SumInRange(w) /\ AddToHeadRead(w)
    \/ \E w \in Writers : Running /\ AddToHeadStore(w)
    \/ \E w \in Writers : Running /\ FlushHeadLockBy(w)
    \/ \E w \in Writers, t \in now..MaxWritersTime :
          Running /\ FlushHeadWriteBy(w, t)
    \/ \E w \in Writers : Running /\ FlushHeadAdvanceBy(w)
    \/ \E w \in Writers : Running /\ FlushHeadClearBy(w)
    \/ Running /\ CallGetDiff("reader1")
    \/ Running /\ GetDiffLock("reader1")
    \/ Running /\ GetDiffBody("reader1")
    \/ Running /\ CallGetHead("reader1")
    \/ Running /\ GetHeadLock("reader1")
    \/ Running /\ GetHeadBody("reader1")

\* a ring of the factory of main.go:36, its window one second
WritersInit ==
    /\ NewValueRing(MaxWritersLength, FactoryInterval)
    /\ Fresh
    /\ Idle

WritersSpec == WritersInit /\ [][WritersNext]_vars

\* ------------------------------------------------------ Add, one caller
\* one goroutine calling AddToHead, Add, GetHead and GetDiff one after the
\* other, each call running statement by statement

\* Add, value_ring.go:76-77: AddToHead is called and tests the aggregator
CallAdd(val) ==
    /\ pc[Writer] = "idle"
    /\ nflush < MaxAddFlushes
    /\ pendingAdd' = [pendingAdd EXCEPT ![Writer] = val]
    /\ goto(Writer, IF aggregator = Nil THEN "Add:store" ELSE "Add:read")
    /\ did("Add", val, aggregator, Nil, Zero, Zero)
    /\ UNCHANGED <<ring, now, lastGood, retained, recovered, nflush, lock,
                   notWriters, total, issued, headIndexOf>>

\* the FlushHead called by Add returns, value_ring.go:78
AddFlushed == FlushHeadReturnTo(Writer, "Add:return")

\* Add returns, value_ring.go:79
AddReturn ==
    /\ pc[Writer] = "Add:return"
    /\ goto(Writer, "idle")
    /\ UNCHANGED <<outside, ring, now, last, lastGood, retained, recovered,
                   nflush, lock>>

AddNext ==
    \/ \E val \in StoredValues : CallAddToHeadBy(Writer, val)
    \/ \E val \in StoredValues : CallAdd(val)
    \/ SumInRange(Writer) /\ AddToHeadRead(Writer)
    \/ AddToHeadStore(Writer)
    \/ FlushHeadLockBy(Writer)
    \/ \E t \in now..MaxAddTime : FlushHeadWriteBy(Writer, t)
    \/ FlushHeadAdvanceBy(Writer)
    \/ AddFlushed
    \/ AddReturn
    \/ CallGetDiff(Writer)
    \/ GetDiffLock(Writer)
    \/ GetDiffBody(Writer)
    \/ CallGetHead(Writer)
    \/ GetHeadLock(Writer)
    \/ GetHeadBody(Writer)

\* a ring of the factory of main.go:36, its window one second
AddInit ==
    /\ NewValueRing(MaxAddLength, FactoryInterval)
    /\ Fresh
    /\ Idle

AddSpec == AddInit /\ [][AddNext]_vars

\* ------------------------------------------------- Increment with readers
\* one thread calling Increment, two readers calling GetDiff and GetHead

Deltas == (-1)..MaxDelta

\* Increment, value_ring.go:86, calls getHead, which reads ring.head with no
\* lock held, value_ring.go:140-145
CallIncrement(d) ==
    /\ pc[Writer] = "idle"
    /\ issued < MaxIncrements
    /\ total + d \in 0..MaxDelta
    /\ pendingAdd' = [pendingAdd EXCEPT ![Writer] = StoredValue(d)]
    /\ headIndexOf' = [headIndexOf EXCEPT ![Writer] = headBefore(values, head)]
    /\ total' = total + d
    /\ issued' = issued + 1
    /\ goto(Writer, "Increment:slot")
    /\ UNCHANGED <<ring, now, last, lastGood, retained, recovered, nflush,
                   lock, notWriters>>

IncrementNext ==
    \/ \E d \in Deltas : CallIncrement(d)
    \/ IncrementReadSlot(Writer)
    \/ AddToHeadTest(Writer)
    \/ AddToHeadStore(Writer)
    \/ FlushHeadLock
    \/ \E t \in Clock : FlushHeadWrite(t)
    \/ FlushHeadAdvance
    \/ FlushHeadClear
    \/ \E t \in Readers : CallGetDiff(t)
    \/ \E t \in Readers : GetDiffLock(t)
    \/ \E t \in Readers : GetDiffBody(t)
    \/ \E t \in Readers : CallGetHead(t)
    \/ \E t \in Readers : GetHeadLock(t)
    \/ \E t \in Readers : GetHeadBody(t)

IncrementSpec == Init /\ [][IncrementNext]_vars

\* ------------------------------------------------- StoredValue on its own
\* DiffValue and AddValue applied to a receiver, an argument and an interval
\* chosen at the start, and AddToHead given the same values

FnInit ==
    /\ NewValueRing(MaxFnLength, FactoryInterval)
    /\ Fresh
    /\ fnName = "none"
    /\ fnSelf \in StoredValues
    /\ fnOther \in StoredValues \cup Pointers \cup {Other, Nil}
    /\ fnSecs = 0
    /\ fnDiff = Zero
    /\ fnSum = Nil
    /\ mismatched = FALSE
    /\ MockIdle
    /\ MainIdle
    /\ SchedIdle
    /\ WritersIdle
    /\ ApiIdle
    /\ sinceReset = -1

\* fnSelf.DiffValue(fnOther, secs)
ApplyDiffValue(secs) ==
    /\ fnName' = "DiffValue"
    /\ fnSecs' = secs
    /\ fnDiff' = DiffValue(fnSelf, fnOther, secs)
    /\ fnSum' = Nil
    /\ UNCHANGED <<ring, now, last, lastGood, retained, recovered, nflush,
                   threads, notFn, fnSelf, fnOther, mismatched>>

\* fnSelf.AddValue(fnOther)
ApplyAddValue ==
    /\ fnName' = "AddValue"
    /\ fnSecs' = 0
    /\ fnDiff' = Zero
    /\ fnSum' = AddValue(fnSelf, fnOther)
    /\ UNCHANGED <<ring, now, last, lastGood, retained, recovered, nflush,
                   threads, notFn, fnSelf, fnOther, mismatched>>

\* StoredValue is the only LogbackValue type of the repository, and a
\* *StoredValue has its methods: the AddValue and DiffValue of a value of
\* another type are not known
KnownReceiver(v) == v = Nil \/ IsScalar(v)

\* AddToHead(val) for a val of any type: an empty aggregator takes val as it
\* is, value_ring.go:57, a scalar aggregator is the receiver of AddValue,
\* value_ring.go:59
FnAddToHead(val) ==
    /\ KnownReceiver(aggregator)
    /\ addToHead(aggregator, val).v \in Scalars
    /\ aggregator' = addToHead(aggregator, val)
    /\ mismatched' = (mismatched \/ ~IsScalar(val))
    /\ did("AddToHead", val, aggregator, Nil, Zero, Zero)
    /\ UNCHANGED <<interval, values, head, previousDiff, now, lastGood,
                   retained, recovered, nflush, threads, notFn, fnName,
                   fnSelf, fnOther, fnSecs, fnDiff, fnSum>>

\* the receiver of the DiffValue call of getDiffInterval, value_ring.go:136,
\* nil when getDiffInterval returns before it
diffReceiver(vals, h, before) ==
    LET hd == getHead(vals, h)
    IN IF hd.val = Nil THEN Nil
       ELSE LET previous == get(vals, h, hd.time - before)
            IN IF previous.val = Nil \/ hd.time - previous.time = 0 THEN Nil
               ELSE hd.val

FnGetDiff ==
    /\ KnownReceiver(diffReceiver(values, head, interval))
    /\ GetDiff

FnFlushHead(t) ==
    /\ nflush < MaxFnFlushes
    /\ FlushHead(t)

FnNext ==
    \/ \E secs \in 0..MaxInterval : ApplyDiffValue(secs)
    \/ ApplyAddValue
    \/ \E val \in {fnSelf, fnOther} : FnAddToHead(val)
    \/ \E t \in now..MaxFnTime : FnFlushHead(t)
    \/ FnGetDiff

FnSpec == FnInit /\ [][FnNext]_vars

\* ---------------------------------------------------------- MockCollector
\* MockSpec: threads calling Init and the generator goroutine.
\* UpdateSpec: the generator goroutine and threads calling Update.

MockInit ==
    /\ \E length \in 1..MaxMockLength : NewValueRing(length, FactoryInterval)
    /\ Fresh
    /\ Idle

initGoto(c, label) == initPc' = [initPc EXCEPT ![c] = label]

\* sync.Once.Do running its function on every call
onceRunsAlways(done) == TRUE

\* sync.Once.Do: whether this call runs the function
onceRuns(done) == ~done

\* a thread calls Init
MockInitCall(c) ==
    /\ initPc[c] = "idle"
    /\ initsCalled < MaxInits
    /\ initsCalled' = initsCalled + 1
    /\ initGoto(c, "readers")
    /\ UNCHANGED <<ring, now, last, lastGood, retained, recovered, nflush,
                   threads, notMock, mockVal, onceDone, generators, genPc,
                   readers, initsReturned, registrations>>

\* Init, collector_mock.go:27-30
MockInitReaders(c) ==
    /\ initPc[c] = "readers"
    /\ readers' = {"mock"}
    /\ registrations' = registrations + 1
    /\ initGoto(c, "once")
    /\ UNCHANGED <<ring, now, last, lastGood, retained, recovered, nflush,
                   threads, notMock, mockVal, onceDone, generators, genPc,
                   initsCalled, initsReturned>>

\* Init, collector_mock.go:31-41: startOnce.Do starting the goroutine
MockInitOnce(c) ==
    /\ initPc[c] = "once"
    /\ generators' = IF onceRuns(onceDone) THEN generators + 1 ELSE generators
    /\ onceDone' = TRUE
    /\ initGoto(c, "return")
    /\ UNCHANGED <<ring, now, last, lastGood, retained, recovered, nflush,
                   threads, notMock, mockVal, genPc, readers, initsCalled,
                   initsReturned, registrations>>

\* Init, collector_mock.go:42
MockInitReturn(c) ==
    /\ initPc[c] = "return"
    /\ initsReturned' = initsReturned + 1
    /\ initGoto(c, "idle")
    /\ UNCHANGED <<ring, now, last, lastGood, retained, recovered, nflush,
                   threads, notMock, mockVal, onceDone, generators, genPc,
                   readers, initsCalled, registrations>>

\* the generator, collector_mock.go:34-35: col.val++ after the sleep
GenIncrement ==
    /\ generators > 0
    /\ genPc = "sleep"
    /\ mockVal' = mockVal + 1
    /\ genPc' = "test"
    /\ UNCHANGED <<ring, now, last, lastGood, retained, recovered, nflush,
                   threads, notMock, onceDone, generators, readers, initPc,
                   initsCalled, initsReturned, registrations>>

\* the generator, collector_mock.go:36-38
GenWrap ==
    /\ generators > 0
    /\ genPc = "test"
    /\ mockVal' = IF mockVal >= MaxMockVal THEN 2 ELSE mockVal
    /\ genPc' = "sleep"
    /\ UNCHANGED <<ring, now, last, lastGood, retained, recovered, nflush,
                   threads, notMock, onceDone, generators, readers, initPc,
                   initsCalled, initsReturned, registrations>>

\* Update, collector_mock.go:46: col.val is read, with nothing that orders
\* the read after the generator's writes, and ring.Add is called with it.
\* Add then runs as the steps AddToHeadTest, AddToHeadRead, AddToHeadStore
\* and FlushHead*By of the calling thread, and returns to line 47.
MockUpdate(w) ==
    /\ pc[w] = "idle"
    /\ nflush + Cardinality(InFlushHead) < MaxUpdates
    /\ pendingAdd' = [pendingAdd EXCEPT ![w] = StoredValue(mockVal)]
    /\ goto(w, "Add:test")
    /\ UNCHANGED <<ring, now, last, lastGood, retained, recovered, nflush,
                   lock, notWriters, total, issued,
                   headIndexOf>>

\* ring.Add returns to Update, collector_mock.go:46
MockAddReturn(w) == FlushHeadReturnTo(w, "Update:metrics")

\* col.UpdateMetrics() and the return, collector_mock.go:47-48: the emission
\* layer is told that the collector's metrics are ready to be read; the
\* ring is not touched
UpdateMetrics(w) ==
    /\ pc[w] = "Update:metrics"
    /\ goto(w, "idle")
    /\ UNCHANGED <<ring, now, last, lastGood, retained, recovered, nflush,
                   lock, notWriters, total, issued,
                   headIndexOf, pendingAdd>>

MockNext ==
    \/ \E c \in InitCallers : MockInitCall(c)
    \/ \E c \in InitCallers : MockInitReaders(c)
    \/ \E c \in InitCallers : MockInitOnce(c)
    \/ \E c \in InitCallers : MockInitReturn(c)
    \/ GenIncrement
    \/ GenWrap

MockSpec == MockInit /\ [][MockNext]_vars

\* one Init call, the generator it starts, and two threads calling Update,
\* before, during and after the Init call
UpdateNext ==
    \/ Running /\ initsCalled = 0 /\ MockInitCall("init1")
    \/ Running /\ MockInitReaders("init1")
    \/ Running /\ MockInitOnce("init1")
    \/ Running /\ MockInitReturn("init1")
    \/ Running /\ GenIncrement
    \/ Running /\ GenWrap
    \/ \E w \in Writers : Running /\ MockUpdate(w)
    \/ \E w \in Writers : Running /\ AddToHeadTest(w)
    \/ \E w \in Writers : Running /\ AddToHeadRead(w)
    \/ \E w \in Writers : Running /\ AddToHeadStore(w)
    \/ \E w \in Writers : Running /\ FlushHeadLockBy(w)
    \/ \E w \in Writers, t \in now..MaxWritersTime :
          Running /\ FlushHeadWriteBy(w, t)
    \/ \E w \in Writers : Running /\ FlushHeadAdvanceBy(w)
    \/ \E w \in Writers : Running /\ MockAddReturn(w)
    \/ \E w \in Writers : Running /\ UpdateMetrics(w)

UpdateSpec == MockInit /\ [][UpdateNext]_vars

\* ----------------------------------------------------------------- do_main
\* the command line gives -ci, do_main sizes the factory and registers the
\* mock collector, whose Update then adds to the ring the factory made

CollectIntervals == {100 * k * Millisecond : k \in 1..MaxCollectInterval}

\* flag.Parse, main.go:74-80: no ring exists yet
MainInit ==
    /\ values = <<>>
    /\ interval = 0
    /\ head = 0
    /\ aggregator = Nil
    /\ previousDiff = Zero
    /\ Fresh
    /\ FnIdle
    /\ MockIdle
    /\ SchedIdle
    /\ WritersIdle
    /\ ApiIdle
    /\ sinceReset = -1
    /\ collectInterval \in CollectIntervals
    /\ factoryLength = 0
    /\ mainPc = "parsed"
    /\ panicked = FALSE

\* valueFactory.Length with the factory's Interval of one second, main.go:83
Length(collect) == (Second \div collect) * 3

\* main.go:83
MainConfigure ==
    /\ mainPc = "parsed"
    /\ factoryLength' = Length(collectInterval)
    /\ mainPc' = "configured"
    /\ UNCHANGED <<ring, now, last, lastGood, retained, recovered, nflush,
                   threads, notMain, collectInterval, panicked>>

\* main.go:84: RegisterMockCollector makes the ring, collector_mock.go:14
MainRegister ==
    /\ mainPc = "configured"
    /\ values' = [i \in 0..(factoryLength - 1) |-> ZeroTimedValue]
    /\ interval' = FactoryInterval
    /\ head' = 0
    /\ aggregator' = Nil
    /\ previousDiff' = Zero
    /\ mainPc' = "running"
    /\ UNCHANGED <<now, last, lastGood, retained, recovered, nflush, threads,
                   notMain, collectInterval, factoryLength, panicked>>

\* the collector's Update calls ring.Add(val), collector_mock.go:46: Add
\* runs as AddToHead and FlushHead of the calling thread
MainUpdate(w, val) ==
    /\ mainPc = "running"
    /\ CallAddBy(w, val)

\* FlushHead, value_ring.go:67: values[head] is out of range in a ring of
\* length 0, and the aggregator still holds what AddToHead stored; the panic
\* unwinds through the deferred Unlock, value_ring.go:65
MainFlushHeadWrite(w, t) ==
    IF head \in DOMAIN values
    THEN FlushHeadWriteBy(w, t)
    ELSE /\ pc[w] = "FlushHead:write"
         /\ panicked' = TRUE
         /\ Unlock(w)
         /\ goto(w, "panic")
         /\ UNCHANGED <<ring, now, last, lastGood, retained, recovered,
                        nflush, notMain, collectInterval, factoryLength,
                        mainPc>>

\* the reader registered by the collector, GetDiff: getHead reads
\* values[headIndex], value_ring.go:146, out of range in a ring of length 0;
\* the panic unwinds through the deferred Unlock, value_ring.go:99
MainGetDiffBody(t) ==
    IF len(values) > 0
    THEN GetDiffBody(t)
    ELSE /\ pc[t] = "GetDiff:body"
         /\ panicked' = TRUE
         /\ Unlock(t)
         /\ goto(t, "panic")
         /\ UNCHANGED <<ring, now, last, lastGood, retained, recovered,
                        nflush, notMain, collectInterval, factoryLength,
                        mainPc>>

MainNext ==
    \/ MainConfigure
    \/ MainRegister
    \/ \E w \in Writers, val \in StoredValues :
          Running /\ MainUpdate(w, val)
    \/ \E w \in Writers : Running /\ SumInRange(w) /\ AddToHeadRead(w)
    \/ \E w \in Writers : Running /\ AddToHeadStore(w)
    \/ \E w \in Writers : Running /\ FlushHeadLockBy(w)
    \/ \E w \in Writers, t \in now..MaxWritersTime :
          Running /\ MainFlushHeadWrite(w, t)
    \/ \E w \in Writers : Running /\ FlushHeadAdvanceBy(w)
    \/ \E w \in Writers : Running /\ MockAddReturn(w)
    \/ \E w \in Writers : Running /\ UpdateMetrics(w)
    \/ Running /\ mainPc = "running" /\ CallGetDiff("reader1")
    \/ Running /\ GetDiffLock("reader1")
    \/ Running /\ MainGetDiffBody("reader1")

MainSpec == MainInit /\ [][MainNext]_vars

\* ---------------------------------------------------------------- scheduler
\* the scheduler calls Init on every registered collector, one after the
\* other, and then Update on every active collector in every cycle; any call
\* can return an error

\* the active set after an Update that returned an error dropping the collector
afterUpdateDropping(act, c, ok) == IF ok THEN act ELSE act \ {c}

\* the active set after Update on c returned: the collector is retained
afterUpdate(act, c, ok) == act

\* the active set after Init on c returned
afterInit(act, c, ok) == IF ok THEN act \cup {c} ELSE act

\* startup: Init on the next registered collector
SchedInit(ok) ==
    /\ initNext \in Collectors
    /\ active' = afterInit(active, initNext, ok)
    /\ initOk' = IF ok THEN initOk \cup {initNext} ELSE initOk
    /\ initFailed' = IF ok THEN initFailed ELSE initFailed \cup {initNext}
    /\ initNext' = initNext + 1
    /\ UNCHANGED <<ring, now, last, lastGood, retained, recovered, nflush,
                   threads, notSched, pending, cycle, updates, updateFailed>>

\* a sampling cycle starts once the one before has updated every collector
SchedCycle ==
    /\ initNext \notin Collectors
    /\ pending = {}
    /\ cycle < MaxCycles
    /\ cycle' = cycle + 1
    /\ pending' = active
    /\ UNCHANGED <<ring, now, last, lastGood, retained, recovered, nflush,
                   threads, notSched, initNext, active, initFailed, initOk,
                   updates, updateFailed>>

\* Update on the next collector of this cycle, in registration order
SchedUpdate(ok) ==
    /\ pending # {}
    /\ LET c == CHOOSE x \in pending : \A y \in pending : x <= y
       IN /\ updates' = [updates EXCEPT ![c] = @ + 1]
          /\ updateFailed' = IF ok THEN updateFailed ELSE updateFailed \cup {c}
          /\ active' = afterUpdate(active, c, ok)
          /\ pending' = (pending \ {c}) \cap afterUpdate(active, c, ok)
    /\ UNCHANGED <<ring, now, last, lastGood, retained, recovered, nflush,
                   threads, notSched, initNext, cycle, initFailed, initOk>>

SchedNext ==
    \/ \E ok \in BOOLEAN : SchedInit(ok)
    \/ SchedCycle
    \/ \E ok \in BOOLEAN : SchedUpdate(ok)

SchedSpec == Init /\ [][SchedNext]_vars

\* ------------------------------------------------- after a counter reset
\* AddToHead, FlushHead and GetDiff one after the other, counting the
\* commits since the latest overflow recovery for as long as they do not
\* decrease

\* the value committed by the latest FlushHead
LastCommitted == IF retained = <<>> THEN Nil ELSE retained[Len(retained)]

\* the count after a commit of agg
counted(agg) ==
    IF /\ sinceReset >= 0
       /\ agg # Nil
       /\ LastCommitted # Nil
       /\ agg.v >= LastCommitted.v
    THEN IF sinceReset < len(values) THEN sinceReset + 1 ELSE sinceReset
    ELSE -1

ResetAddToHead(val) ==
    /\ addToHead(aggregator, val) \in StoredValues
    /\ aggregator' = addToHead(aggregator, val)
    /\ did("AddToHead", Nil, Nil, Nil, Zero, Zero)
    /\ UNCHANGED <<interval, values, head, previousDiff, now, lastGood,
                   retained, recovered, nflush, threads, sinceReset, notReset>>

ResetFlushHead(t) ==
    /\ commit(aggregator, t)
    /\ did("FlushHead", Nil, Nil, Nil, Zero, Zero)
    /\ sinceReset' = counted(aggregator)
    /\ UNCHANGED <<interval, previousDiff, lastGood, recovered, threads,
                   notReset>>

ResetGetDiff ==
    /\ getDiff
    /\ sinceReset' = IF IsNegative(getDiffInterval(values, head, interval))
                     THEN 0 ELSE sinceReset
    /\ UNCHANGED notReset

ResetNext ==
    \/ \E val \in StoredValues : ResetAddToHead(val)
    \/ \E t \in Clock : ResetFlushHead(t)
    \/ ResetGetDiff

ResetSpec == Init /\ [][ResetNext]_vars

\* ------------------------------------------------------ file-output switch
\* handler goroutines serving /api/file_output and the pipeline's sample
\* filter; the handler body is split where the lock is taken and released.
\* The reads of FileOutputEnabled at cmd.go:122 and cmd.go:153 hold no lock:
\* each gives the value before or after a concurrent assignment, which is
\* the order of the steps here.

ApiInit ==
    /\ NewValueRing(1, FactoryInterval)
    /\ Fresh
    /\ Idle

\* the switch statement of handleRequest, cmd.go:141-148
switchMethod(method, old) ==
    CASE method = "GET" -> old
      [] method \in {"POST", "PUT"} -> TRUE
      [] method = "DELETE" -> FALSE

\* the status line of handleRequest, cmd.go:152-158
statusText(enabled) ==
    IF enabled THEN "File output is enabled" ELSE "File output is disabled"

\* the fields of request r that a step assigns
handle(r, fields) ==
    request' = [request EXCEPT ![r] = [f \in DOMAIN request[r] |->
                   IF f \in DOMAIN fields THEN fields[f] ELSE request[r][f]]]

\* the router hands a request to a handler goroutine
ApiRequest(r, method) ==
    /\ request[r].pc = "idle"
    /\ served < MaxRequests
    /\ request' = [request EXCEPT ![r] = [NoRequest EXCEPT !.pc = "lock",
                                                          !.method = method]]
    /\ served' = served + 1
    /\ UNCHANGED <<beside, FileOutputEnabled, apiLock, included>>

\* handleRequest, cmd.go:139
HandleLock(r) ==
    /\ request[r].pc = "lock"
    /\ apiLock = Free
    /\ apiLock' = r
    /\ handle(r, [pc |-> "switch"])
    /\ UNCHANGED <<beside, FileOutputEnabled, served, included>>

\* handleRequest, cmd.go:140-149
HandleSwitch(r) ==
    LET old == FileOutputEnabled
        new == switchMethod(request[r].method, old)
    IN /\ request[r].pc = "switch"
       /\ FileOutputEnabled' = new
       /\ handle(r, [pc |-> "unlock", oldStatus |-> old, newStatus |-> new])
       /\ UNCHANGED <<beside, apiLock, served, included>>

\* handleRequest, cmd.go:150
HandleUnlock(r) ==
    /\ request[r].pc = "unlock"
    /\ apiLock' = Free
    /\ handle(r, [pc |-> "read"])
    /\ UNCHANGED <<beside, FileOutputEnabled, served, included>>

\* handleRequest, cmd.go:152-158: the switch is read again
HandleRead(r) ==
    /\ request[r].pc = "read"
    /\ handle(r, [pc |-> "write", status |-> statusText(FileOutputEnabled)])
    /\ UNCHANGED <<beside, FileOutputEnabled, apiLock, served, included>>

\* handleRequest, cmd.go:159-162: the response is written and the handler
\* returns
HandleWrite(r) ==
    /\ request[r].pc = "write"
    /\ handle(r, [pc |-> "idle"])
    /\ UNCHANGED <<beside, FileOutputEnabled, apiLock, served, included>>

\* the IncludeFilter of set_sink, cmd.go:121-123, asked about a sample
IncludeFilter ==
    /\ included' = FileOutputEnabled
    /\ UNCHANGED <<beside, FileOutputEnabled, apiLock, request, served>>

ApiNext ==
    \/ \E r \in Requests, method \in Methods : ApiRequest(r, method)
    \/ \E r \in Requests : HandleLock(r)
    \/ \E r \in Requests : HandleSwitch(r)
    \/ \E r \in Requests : HandleUnlock(r)
    \/ \E r \in Requests : HandleRead(r)
    \/ \E r \in Requests : HandleWrite(r)
    \/ IncludeFilter

ApiSpec == ApiInit /\ [][ApiNext]_vars

\* ------------------------------------------------ reading the ring's state
\* the j-th newest slot: j = 1 is the slot before head, going backward
slot(j) == values[(head + 2 * len(values) - j) % len(values)]

\* the number of non-empty slots in a row, going backward from the newest
Contiguous ==
    IF slot(1).val = Nil THEN 0
    ELSE CHOOSE k \in 1..len(values) :
            /\ \A j \in 1..k : slot(j).val # Nil
            /\ (k = len(values) \/ slot(k + 1).val = Nil)

\* the rate of change between two samples, newer first
RateBetween(newer, older) ==
    IF newer.time = older.time THEN Zero
    ELSE Rat(newer.val.v - older.val.v, newer.time - older.time)

\* the samples of the contiguous history carry increasing timestamps
DistinctTimes == \A j \in 2..Contiguous : slot(j).time < slot(j - 1).time

Recovery == op = "GetDiff" /\ IsNegative(diffRaw)
GoodDiff == op = "GetDiff" /\ ~IsNegative(diffRaw)

\* ---------------------------------------------------------------- claims
\* C1: after a GetDiff that computed a negative difference, the slot before
\* head still holds the most recently committed value and every other slot
\* is empty.
C1_RecoveryKeepsNewest ==
    Recovery =>
        /\ slot(1).val = LastCommitted
        /\ \A j \in 2..len(values) : slot(j).val = Nil

\* C2: a GetDiff that computes a negative difference returns the result of
\* the latest earlier GetDiff whose computed difference was not negative,
\* and 0 if there was none.
C2_FallbackToLastGood == Recovery => resDiff = lastGood

C2_Witness ==
    /\ Recovery
    /\ resDiff # Zero
    /\ len(values) = 3

\* C3: two reads of the same kind with no writer operation between them
\* return the same result.
C3_ReadsIdempotent ==
    [][/\ (op = "GetDiff" /\ op' = "GetDiff") => resDiff' = resDiff
       /\ (op = "GetHead" /\ op' = "GetHead") => resHead' = resHead]_vars

\* C4 as stated: when no stored sample is at least the window older than the
\* head sample, GetDiff returns 0; stated for samples with distinct timestamps.
NoSampleOldEnough ==
    /\ slot(1).val # Nil
    /\ \A i \in DOMAIN values :
          values[i].val # Nil => values[i].time > slot(1).time - interval

C4_Original ==
    (GoodDiff /\ NoSampleOldEnough /\ DistinctTimes) => resDiff = Zero

\* C4 amended: when no stored sample is at least the window older than the
\* head sample, GetDiff returns the rate of change between the head sample
\* and the oldest sample of the contiguous history, if that rate is not
\* negative; this is 0 when the head sample is the only one.
C4_FallsBackToOldest ==
    (GoodDiff /\ NoSampleOldEnough) =>
        resDiff = RateBetween(slot(1), slot(Contiguous))

C4_Witness ==
    /\ GoodDiff
    /\ NoSampleOldEnough
    /\ nflush < len(values)
    /\ Contiguous = 2
    /\ resDiff # Zero

\* the contiguous samples, other than the head sample, that are at least
\* the window older than the head sample (at or before the boundary)
AtOrBefore == {j \in 2..Contiguous : slot(j).time <= slot(1).time - interval}

\* the same, strictly before the boundary
StrictlyBefore == {j \in 2..Contiguous : slot(j).time < slot(1).time - interval}

Newest(S) == CHOOSE j \in S : \A k \in S : j <= k

\* C5 as stated: GetDiff returns the rate of change between the head sample
\* and the most recent sample at or before head.timestamp - window; stated
\* for samples with distinct timestamps.
C5_Original ==
    (GoodDiff /\ AtOrBefore # {} /\ DistinctTimes) =>
        resDiff = RateBetween(slot(1), slot(Newest(AtOrBefore)))

\* C5 amended: when a sample strictly before head.timestamp - window exists
\* in the contiguous history, GetDiff computes the rate of change between the
\* head sample and the most recent such sample, and returns it if it is not
\* negative; a sample exactly on the boundary is passed over.
C5_RateToNewestStrictlyBefore ==
    (GoodDiff /\ StrictlyBefore # {}) =>
        resDiff = RateBetween(slot(1), slot(Newest(StrictlyBefore)))

C5_Witness ==
    /\ GoodDiff
    /\ StrictlyBefore # {}
    /\ Newest(StrictlyBefore) = 3
    /\ slot(2).time = slot(1).time - interval
    /\ resDiff # RateBetween(slot(1), slot(2))

\* C6: in every interleaving of AddToHead, FlushHead, Add and Increment by
\* several threads with GetHead and GetDiff, the value a GetDiff returns is
\* not negative.
C6_DiffNeverNegative ==
    [][\A t \in Readers :
          (pc[t] = "GetDiff:body" /\ pc'[t] = "idle") =>
              ~IsNegative(getDiffValue(
                  getDiffInterval(values, head, interval), previousDiff))]_vars

\* a GetDiff has computed a negative difference from two commits and returned
C6_Witness ==
    /\ recovered
    /\ nflush >= 2
    /\ pc["reader1"] = "idle"
    /\ ~IsNegative(previousDiff)

\* C8: as long as no GetDiff has taken the overflow branch, the ring holds
\* exactly the newest min(n, capacity) committed values after n commits, the
\* remaining slots are empty, and GetHead gives the n-th value.
C8_RetainsNewest ==
    ~recovered =>
        /\ Len(retained) = IF nflush < len(values) THEN nflush ELSE len(values)
        /\ \A j \in 1..Len(retained) :
              slot(j).val = retained[Len(retained) + 1 - j]
        /\ \A j \in (Len(retained) + 1)..len(values) : slot(j) = ZeroTimedValue
        /\ nflush > 0 => getHead(values, head).val = LastCommitted

C8_Witness ==
    /\ ~recovered
    /\ len(values) = 3
    /\ nflush = len(values) + 1
    /\ op = "FlushHead"
    /\ \A j \in 1..3 : slot(j).val # Nil
    /\ slot(1).val # slot(2).val

\* C9: when Add(v), called with an empty aggregator, returns, GetHead gives v.
C9_AddThenGetHead ==
    (pc[Writer] = "Add:return" /\ aggBefore = Nil) =>
        getHead(values, head).val = arg

C9_Witness ==
    /\ pc[Writer] = "Add:return"
    /\ aggBefore = Nil
    /\ nflush >= len(values)
    /\ head = 0
    /\ len(values) > 1
    /\ arg # slot(2).val

\* C10: once a FlushHead has committed a value, GetHead returns the value
\* committed by the latest FlushHead.
C10_HeadIsLatestCommit ==
    (nflush > 0 /\ LastCommitted # Nil) =>
        getHead(values, head).val = LastCommitted

\* the threads inside a method that holds the lock
Locked == {"FlushHead:write", "FlushHead:advance", "FlushHead:clear",
           "GetDiff:body", "GetHead:body"}

\* a commit has written its slot and not yet advanced head, or has advanced
\* head and not yet cleared the aggregator
MidCommit == pc[Writer] \in {"FlushHead:advance", "FlushHead:clear"}

\* C7: a reader inside GetDiff or GetHead holds the lock alone and never
\* finds the ring between the slot write and the head update of a FlushHead.
C7_ReadersSeeWholeCommits ==
    \A t \in Readers :
        pc[t] \in {"GetDiff:body", "GetHead:body"} =>
            /\ lock = t
            /\ ~MidCommit
            /\ \A u \in Threads \ {t} : pc[u] \notin Locked

\* two GetDiff calls and a FlushHead in flight together, one reader reading
C7_Witness ==
    /\ pc["reader1"] = "GetDiff:body"
    /\ pc["reader2"] = "GetDiff:lock"
    /\ pc[Writer] = "FlushHead:lock"
    /\ nflush > 0
    /\ aggregator # Nil

\* C11 as stated: DiffValue of two scalar values over an interval of 0
\* returns 0.
C11_Original ==
    (fnName = "DiffValue" /\ IsScalar(fnOther) /\ fnSecs = 0) =>
        fnDiff = Zero

\* the head sample and the sample GetDiff compares it with carry the same
\* timestamp
ZeroElapsed ==
    /\ slot(1).val # Nil
    /\ get(values, head, slot(1).time - interval).val # Nil
    /\ get(values, head, slot(1).time - interval).time = slot(1).time

\* C11 amended: DiffValue of two scalar values over an interval of 0 returns
\* the float64 quotient by 0 (+Inf, -Inf, or NaN for equal values); a GetDiff
\* whose head sample and comparison sample carry the same timestamp computes
\* 0 all the same, because getDiffInterval tests the interval itself.
C11_GuardIsInTheRing ==
    [][/\ (fnName' = "DiffValue" /\ IsScalar(fnOther) /\ fnSecs' = 0) =>
            fnDiff' = IF fnSelf.v > fnOther.v THEN PosInf
                      ELSE IF fnSelf.v < fnOther.v THEN NegInf
                      ELSE NaN
       /\ (op' = "GetDiff" /\ UNCHANGED fnVars /\ ZeroElapsed) =>
            (diffRaw' = Zero /\ resDiff' = Zero)]_vars

\* DiffValue gave +Inf, and a GetDiff over two different values committed at
\* the same instant gave 0
C11_Witness ==
    /\ fnName = "DiffValue"
    /\ fnSecs = 0
    /\ fnDiff = PosInf
    /\ op = "GetDiff"
    /\ Contiguous = 2
    /\ slot(1).time = slot(2).time
    /\ slot(1).val # slot(2).val
    /\ resDiff = Zero

\* C18: DiffValue of a StoredValue against a value that is neither a
\* StoredValue nor a *StoredValue returns 0, AddValue with such a value
\* returns StoredValue(0), AddToHead of such a value onto a scalar aggregator
\* leaves StoredValue(0) there, and head stays inside the storage.
C18_MismatchIsNeutral ==
    /\ (fnName = "DiffValue" /\ ~IsScalar(fnOther)) => fnDiff = Zero
    /\ (fnName = "AddValue" /\ ~IsScalar(fnOther)) => fnSum = StoredValue(0)
    /\ (op = "AddToHead" /\ IsScalar(aggBefore) /\ ~IsScalar(arg)) =>
           aggregator = StoredValue(0)
    /\ head \in 0..(len(values) - 1)

\* both methods' mismatch results seen, then a rate computed by the ring that
\* was given the mismatching value
C18_Witness ==
    /\ fnName = "AddValue"
    /\ fnOther = Other
    /\ fnSelf # StoredValue(0)
    /\ fnSum = StoredValue(0)
    /\ mismatched
    /\ op = "GetDiff"
    /\ resDiff # Zero

\* C12: at most one generator goroutine is ever started, however many Init
\* calls run and however they interleave; every Init call that returned has
\* registered the readers, and the goroutine is running once one returned.
C12_OneGenerator ==
    /\ generators <= 1
    /\ onceDone <=> generators = 1
    /\ registrations >= initsReturned
    /\ initsReturned > 0 => (generators = 1 /\ readers = {"mock"})

\* after a first Init returned, two more Init calls run together, one of them
\* past startOnce.Do, while the generator has been counting
C12_Witness ==
    /\ initsReturned = 1
    /\ initPc["init1"] = "return"
    /\ initPc["init2"] = "once"
    /\ registrations = MaxInits
    /\ generators = 1
    /\ mockVal > 2

\* C20: the value Update reads from col.val and hands to ring.Add, to be
\* committed, is at least 0 and below _max_mock_val.
C20_UpdateBelowBound ==
    \A w \in Writers :
        pc[w] = "Add:test" =>
            (pendingAdd[w].v >= 0 /\ pendingAdd[w].v < MaxMockVal)

\* C19: for every positive -ci the Length computed by do_main is at least
\* 1, and no operation on the ring made with it indexes outside the storage.
C19_CapacityUsable ==
    /\ mainPc \in {"configured", "running"} => factoryLength >= 1
    /\ ~panicked

\* C13: a collector whose Init returned an error is never updated and never
\* active; a collector whose Init returned nil stays active whatever its
\* Updates return, and has been updated once in every cycle started, the
\* current cycle excepted while its turn has not come.
C13_Lifecycle ==
    /\ \A c \in initFailed : updates[c] = 0 /\ c \notin active
    /\ active = initOk
    /\ \A c \in initOk :
          updates[c] = IF c \in pending THEN cycle - 1 ELSE cycle

\* one collector failed its Init; another failed an Update in the first
\* cycle and has been updated again in the second
C13_Witness ==
    /\ initFailed # {}
    /\ cycle = 2
    /\ \E c \in updateFailed : updates[c] = 2
    /\ pending = {}

\* the contiguous samples with a timestamp strictly before b, newest first
Before(b) == {j \in 1..Contiguous : slot(j).time < b}

\* C14: for every time b, get(b) is the newest sample of the contiguous
\* history, counted backward from the slot before head with wraparound, whose
\* timestamp is strictly before b; when there is none it is the oldest sample
\* of that history, and the empty TimedValue when the slot before head is
\* empty.  It is never a sample behind an empty slot.
C14_BackwardSearch ==
    \A b \in 0..(MaxTime + 1) :
        get(values, head, b) =
            IF Contiguous = 0 THEN ZeroTimedValue
            ELSE IF Before(b) # {} THEN slot(Newest(Before(b)))
            ELSE slot(Contiguous)

\* a wrapped ring whose history ends at a slot that was written and holds no
\* value: the search across index 0 finds a sample strictly before one time,
\* and falls back to the oldest contiguous sample for another
C14_Witness ==
    /\ len(values) = 3
    /\ head = 1
    /\ nflush > len(values)
    /\ Contiguous = 2
    /\ slot(3).time > 0
    /\ Before(slot(1).time) = {2}
    /\ get(values, head, slot(1).time) = slot(2)
    /\ get(values, head, slot(2).time) = slot(2)

\* the commits since the latest overflow recovery and the one before them
SinceReset ==
    1..(IF sinceReset < len(values) THEN sinceReset + 1 ELSE len(values))

\* C17: after an overflow recovery, as long as every commit is a scalar not
\* below the commit before it, a GetDiff computes no negative difference, and
\* the sample it compares the head sample with was committed after the
\* recovery or is the one the recovery was computed from.
C17_CleanAfterReset ==
    [][(sinceReset >= 0 /\ op' = "GetDiff") =>
          /\ ~IsNegative(diffRaw')
          /\ slot(1).val # Nil =>
                \E j \in SinceReset :
                    /\ slot(j).val # Nil
                    /\ slot(j) = get(values, head, slot(1).time - interval)]_vars

\* a recovery, two commits that do not decrease, and a GetDiff that computes
\* a rate above 0 from them
C17_Witness ==
    /\ recovered
    /\ sinceReset = 2
    /\ op = "GetDiff"
    /\ ~IsNegative(diffRaw)
    /\ resDiff # Zero
    /\ slot(1).val # slot(2).val

\* a FlushHead has advanced head and not yet returned
Advanced == {w \in Writers : pc[w] = "FlushHead:clear"}

\* a thread takes a step of AddToHead, GetDiff or GetHead
ReadOrAddStep ==
    \E t \in Threads :
        /\ pc'[t] # pc[t]
        /\ \/ pc[t] \in AddLabels \cup {"AddToHead:read", "AddToHead:store",
                          "GetDiff:lock", "GetDiff:body", "GetHead:lock",
                          "GetHead:body"}
           \/ pc'[t] \in AddLabels \cup {"AddToHead:read", "AddToHead:store",
                           "GetDiff:lock", "GetHead:lock"}

AddStep ==
    \E w \in Writers :
        /\ pc'[w] # pc[w]
        /\ \/ pc[w] \in AddLabels \cup {"AddToHead:read", "AddToHead:store"}
           \/ pc'[w] \in AddLabels \cup {"AddToHead:read", "AddToHead:store"}

\* C15: head is inside the storage and equals the number of completed
\* FlushHead calls modulo the capacity, one more while a FlushHead has
\* advanced head and not yet returned; a FlushHead moves head by one slot,
\* between taking the lock and returning, and returns with the aggregator
\* cleared; a step of AddToHead, GetDiff or GetHead leaves head unchanged,
\* and a step of AddToHead leaves the stored samples unchanged.
C15_HeadTracksCommits ==
    /\ [](/\ head \in 0..(len(values) - 1)
          /\ head = (nflush + Cardinality(Advanced)) % len(values))
    /\ [][/\ nflush' = nflush + 1 => aggregator' = Nil
          /\ (\E w \in Writers : pc[w] = "FlushHead:advance"
                                  /\ pc'[w] = "FlushHead:clear")
               => head' = (head + 1) % len(values)
          /\ ReadOrAddStep => head' = head
          /\ AddStep => values' = values]_vars

\* two writers inside FlushHead, one holding the lock with head advanced and
\* the other waiting for it, while the reader is inside GetDiff
C15_Witness ==
    /\ pc[Writer] = "FlushHead:lock"
    /\ pc["writer2"] = "FlushHead:clear"
    /\ pc["reader1"] = "GetDiff:lock"
    /\ len(values) > 1
    /\ nflush = 0
    /\ head = 1
    /\ aggregator # Nil

\* C16: when an Increment has returned, the value it committed is the sum of
\* the arguments of all Increment calls so far.
C16_RunningTotal ==
    (pc[Writer] = "idle" /\ issued > 0) => LastCommitted = StoredValue(total)

\* the requests whose response has been written
Responded == {r \in Requests : request[r].pc = "idle" /\ request[r].status # ""}

\* C21: the switch is disabled until a request is received, and the status
\* text in a request's response reports the state that this request left
\* the switch in: enabled after its POST or PUT, disabled after its DELETE,
\* the state it found after its GET.
C21_ResponseReportsOwnState ==
    /\ served = 0 => ~FileOutputEnabled
    /\ \A r \in Responded :
          request[r].status = statusText(request[r].newStatus)

====
